---- MODULE Spec2Model ----
(***************************************************************************)
(* Model of the polar-plant dashboard script (src/main.py): the Unicode    *)
(* normalizing file lookup, the two memoized loaders, the halt guard and   *)
(* the aggregations of the three tabs.                                     *)
(*                                                                         *)
(* Strings are sequences of Unicode code points, so that normalization and *)
(* Python's code-point string ordering are computed, not assumed.          *)
(* Floats are small integers; a mean is the pair (sum, count) and means    *)
(* are compared by cross-multiplication.                                   *)
(***************************************************************************)
EXTENDS Integers, Sequences, FiniteSets, TLC

VARIABLES
    pc,             \* position of the script run
    exc,            \* the exception that ended the run, "" if none
    dir,            \* listing of DATA_DIR: sequence of [name, body]
    workbook,       \* sheets of the growth workbook: sequence of [name, rows]
    widget,         \* the sidebar selectbox's session state
    target,         \* file name asked of find_file_by_name
    found,          \* its result: index of the entry returned, None if none
    school_idx,     \* position of the loop over SCHOOL_EC.keys()
    env_data,       \* dict school -> environment table
    errors,         \* st.error messages: the file names reported missing
    growth_df,      \* consolidated growth table: sequence of rows
    school_option,  \* value returned by the selectbox
    overview_df,    \* tab 1 table: sequence of [school, ec, count]
    optimal_ec,     \* tab 1 metric
    ec_weight,      \* tab 3 per-EC means, after reset_index
    ec_size,        \* tab 3 per-EC row counts
    best_ec,        \* tab 3 headline
    run_pc,         \* position of each concurrent script run
    run_val,        \* per run and loader: the load whose result the run received
    cache,          \* st.cache_data entry per loader: the load stored, 0 if none
    lock,           \* compute lock per loader: the run holding it, 0 if free
    body_runs       \* per loader: how many times its body has been entered

resVars == <<target, found>>
cacheVars == <<run_pc, run_val, cache, lock, body_runs>>
auxVars == <<resVars, cacheVars>>
loadVars == <<school_idx, env_data, errors, growth_df>>
tabVars == <<school_option, overview_df, optimal_ec, ec_weight, ec_size, best_ec>>
inVars == <<dir, workbook, widget>>
vars == <<pc, exc, dir, workbook, widget, target, found, school_idx, env_data, errors,
          growth_df, school_option, overview_df, optimal_ec, ec_weight, ec_size, best_ec,
          run_pc, run_val, cache, lock, body_runs>>

(***************************************************************************)
(* unicodedata.normalize("NFC", .) restricted to Hangul and ASCII: the     *)
(* conjoining-jamo algorithm of the Unicode standard (section 3.12).       *)
(***************************************************************************)
SBase == 44032
LBase == 4352
VBase == 4449
TBase == 4519
LCount == 19
VCount == 21
TCount == 28
NCount == 588
SCount == 11172

IsSyllable(c) == c >= SBase /\ c < SBase + SCount
IsL(c) == c >= LBase /\ c < LBase + LCount
IsV(c) == c >= VBase /\ c < VBase + VCount
IsT(c) == c > TBase /\ c < TBase + TCount
IsLV(c) == IsSyllable(c) /\ (c - SBase) % TCount = 0

DecomposeChar(c) ==
    IF IsSyllable(c)
    THEN LET si == c - SBase
             l == LBase + (si \div NCount)
             v == VBase + ((si % NCount) \div TCount)
             t == TBase + (si % TCount)
         IN IF t = TBase THEN <<l, v>> ELSE <<l, v, t>>
    ELSE <<c>>

RECURSIVE Decompose(_)
Decompose(s) ==
    IF s = <<>> THEN <<>> ELSE DecomposeChar(Head(s)) \o Decompose(Tail(s))

RECURSIVE ComposeFrom(_, _)
ComposeFrom(acc, rest) ==
    IF rest = <<>> THEN acc
    ELSE LET ch == Head(rest)
             n == Len(acc)
         IN IF n = 0 THEN ComposeFrom(<<ch>>, Tail(rest))
            ELSE LET last == acc[n]
                     front == SubSeq(acc, 1, n - 1)
                 IN IF IsL(last) /\ IsV(ch)
                    THEN ComposeFrom(
                           Append(front, SBase + ((last - LBase) * VCount + (ch - VBase)) * TCount),
                           Tail(rest))
                    ELSE IF IsLV(last) /\ IsT(ch)
                    THEN ComposeFrom(Append(front, last + (ch - TBase)), Tail(rest))
                    ELSE ComposeFrom(Append(acc, ch), Tail(rest))

\* A lookup that compares the stored bytes as they are.
normalize_text_raw(text) == text

normalize_text(text) == ComposeFrom(<<>>, Decompose(text))

\* Canonical equivalence: identical full canonical decompositions.
CanonEq(a, b) == Decompose(a) = Decompose(b)

None == 0

\* A scan that keeps going after a match and returns the last one.
RECURSIVE ScanFromLast(_, _, _)
ScanFromLast(directory, target_norm, k) ==
    IF k > Len(directory) THEN None
    ELSE LET later == ScanFromLast(directory, target_norm, k + 1)
         IN IF later # None THEN later
            ELSE IF normalize_text(directory[k].name) = target_norm THEN k
            ELSE None

RECURSIVE ScanFrom(_, _, _)
ScanFrom(directory, target_norm, k) ==
    IF k > Len(directory) THEN None
    ELSE IF normalize_text(directory[k].name) = target_norm THEN k
    ELSE ScanFrom(directory, target_norm, k + 1)

find_file_by_name(directory, target_name) ==
    ScanFrom(directory, normalize_text(target_name), 1)

(***************************************************************************)
(* Configuration.                                                          *)
(***************************************************************************)
Songdo == <<49569, 46020, 44256>>
Haneul == <<54616, 45720, 44256>>
Ara == <<50500, 46972, 44256>>
Dongsan == <<46041, 49328, 44256>>

\* SCHOOL_EC.keys(), in insertion order
SchoolKeys == <<Songdo, Haneul, Ara, Dongsan>>

Schools == {SchoolKeys[k] : k \in DOMAIN SchoolKeys}

NullEC == 0
NaN == -1

\* SCHOOL_EC.get(name): the target EC, None for a name that is no key
SCHOOL_EC_get(name) ==
    CASE name = Songdo -> 1
      [] name = Haneul -> 2
      [] name = Ara -> 4
      [] name = Dongsan -> 8
      [] OTHER -> NullEC

\* "_환경데이터.csv"
EnvSuffix == <<95, 54872, 44221, 45936, 51060, 53552, 46, 99, 115, 118>>

EnvFileName(school) == school \o EnvSuffix

\* "4개교_생육결과데이터.xlsx"
GrowthFileName ==
    <<52, 44060, 44368, 95, 49373, 50977, 44208, 44284, 45936, 51060, 53552,
      46, 120, 108, 115, 120>>

\* "전체"
All == <<51204, 52404>>

\* ["전체"] + list(SCHOOL_EC.keys())
SidebarOptions == <<All>> \o SchoolKeys

(***************************************************************************)
(* Python string order (by code point) and sorted group keys.              *)
(***************************************************************************)
RECURSIVE StrLess(_, _)
StrLess(a, b) ==
    IF b = <<>> THEN FALSE
    ELSE IF a = <<>> THEN TRUE
    ELSE IF Head(a) # Head(b) THEN Head(a) < Head(b)
    ELSE StrLess(Tail(a), Tail(b))

RECURSIVE SortNames(_)
SortNames(S) ==
    IF S = {} THEN <<>>
    ELSE LET m == CHOOSE x \in S : \A y \in S \ {x} : StrLess(x, y)
         IN <<m>> \o SortNames(S \ {m})

RECURSIVE SortInts(_)
SortInts(S) ==
    IF S = {} THEN <<>>
    ELSE LET m == CHOOSE x \in S : \A y \in S : x <= y
         IN <<m>> \o SortInts(S \ {m})

RECURSIVE SumW(_)
SumW(rows) ==
    IF rows = <<>> THEN 0
    ELSE (IF Head(rows).w = NaN THEN 0 ELSE Head(rows).w) + SumW(Tail(rows))

\* A count that takes a missing value for a value.
CountAll(rows) == Len(rows)

RECURSIVE CountW(_)
CountW(rows) ==
    IF rows = <<>> THEN 0
    ELSE (IF Head(rows).w = NaN THEN 0 ELSE 1) + CountW(Tail(rows))

HasEC(r) == r.EC # NullEC

\* groupby("학교").size().values: one count per school present, keys sorted
SizeBySchool(table) ==
    LET keys == SortNames({table[k].school : k \in DOMAIN table})
    IN [k \in DOMAIN keys |->
          Cardinality({j \in DOMAIN table : table[j].school = keys[k]})]

\* groupby("EC").size(): rows with a null key belong to no group
SizeByEC(table) ==
    LET keys == SortInts({table[k].EC : k \in {j \in DOMAIN table : HasEC(table[j])}})
    IN [k \in DOMAIN keys |->
          [EC |-> keys[k],
           size |-> Cardinality({j \in DOMAIN table : table[j].EC = keys[k]})]]

RowsOfEC(table, ec) == SelectSeq(table, LAMBDA r : r.EC = ec)

\* groupby("EC")[col].mean(): NaN values leave both the sum and the count
MeanByEC(table) ==
    LET keys == SortInts({table[k].EC : k \in {j \in DOMAIN table : HasEC(table[j])}})
    IN [k \in DOMAIN keys |->
          [EC |-> keys[k],
           sum |-> SumW(RowsOfEC(table, keys[k])),
           cnt |-> CountW(RowsOfEC(table, keys[k]))]]

\* a.sum / a.cnt > b.sum / b.cnt, both counts positive
MeanGreater(a, b) == a.sum * b.cnt > b.sum * a.cnt

\* An argmax that keeps the last of several equal maxima.
RECURSIVE IdxMaxLast(_, _, _)
IdxMaxLast(series, k, best) ==
    IF k > Len(series) THEN best
    ELSE IF series[k].cnt = 0 THEN IdxMaxLast(series, k + 1, best)
    ELSE IF best = 0 \/ ~MeanGreater(series[best], series[k])
         THEN IdxMaxLast(series, k + 1, k)
         ELSE IdxMaxLast(series, k + 1, best)

\* Series.idxmax(): position of the first greatest value, NaN skipped;
\* 0 when there is no value at all
RECURSIVE IdxMaxFrom(_, _, _)
IdxMaxFrom(series, k, best) ==
    IF k > Len(series) THEN best
    ELSE IF series[k].cnt = 0 THEN IdxMaxFrom(series, k + 1, best)
    ELSE IF best = 0 \/ MeanGreater(series[k], series[best])
         THEN IdxMaxFrom(series, k + 1, k)
         ELSE IdxMaxFrom(series, k + 1, best)

IdxMax(series) == IdxMaxFrom(series, 1, 0)

\* growth_df.groupby("EC")[w].mean().idxmax(): the label is the EC key
OptimalEcOf(table) ==
    LET means == MeanByEC(table)
        k == IdxMax(means)
    IN IF k = 0 THEN NaN ELSE means[k].EC

\* .reset_index(): EC becomes a column, the labels become 0, 1, ...
ResetIndex(series) ==
    [k \in DOMAIN series |->
       [index |-> k - 1, EC |-> series[k].EC, sum |-> series[k].sum, cnt |-> series[k].cnt]]

\* ec_weight.loc[ec_weight[w].idxmax(), "EC"]
BestEcOf(frame) ==
    LET k == IdxMax(frame)
    IN IF k = 0 THEN NaN
       ELSE LET label == frame[k].index
                row == CHOOSE r \in {frame[j] : j \in DOMAIN frame} : r.index = label
            IN row.EC

\* A join that stamps the first configured EC on every sheet.
StampSheetFirst(sheet) ==
    [k \in DOMAIN sheet.rows |->
       [school |-> sheet.name, EC |-> SCHOOL_EC_get(Songdo), w |-> sheet.rows[k].w]]

\* df["학교"] = sheet; df["EC"] = SCHOOL_EC.get(sheet)
StampSheet(sheet) ==
    [k \in DOMAIN sheet.rows |->
       [school |-> sheet.name, EC |-> SCHOOL_EC_get(sheet.name), w |-> sheet.rows[k].w]]

\* pd.concat(all_data, ignore_index=True)
RECURSIVE ConcatSheets(_)
ConcatSheets(sheets) ==
    IF sheets = <<>> THEN <<>>
    ELSE StampSheet(Head(sheets)) \o ConcatSheets(Tail(sheets))

(***************************************************************************)
(* The two loaders (bodies of the functions under @st.cache_data).         *)
(***************************************************************************)
CurSchool == SchoolKeys[school_idx]

\* file_path is None: st.error(...); continue
EnvMissing ==
    /\ pc = "load_env"
    /\ school_idx <= Len(SchoolKeys)
    /\ find_file_by_name(dir, EnvFileName(CurSchool)) = None
    /\ errors' = Append(errors, EnvFileName(CurSchool))
    /\ school_idx' = school_idx + 1
    /\ UNCHANGED <<pc, exc, env_data, growth_df, inVars, auxVars, tabVars>>

\* read_csv, to_datetime, df["학교"] = school, data[school] = df
EnvParsed ==
    /\ pc = "load_env"
    /\ school_idx <= Len(SchoolKeys)
    /\ LET f == find_file_by_name(dir, EnvFileName(CurSchool))
       IN /\ f # None
          /\ dir[f].body # "badtime"
          /\ env_data' = [s \in DOMAIN env_data \cup {CurSchool} |->
                            IF s = CurSchool
                            THEN [school |-> CurSchool, file |-> f]
                            ELSE env_data[s]]
    /\ school_idx' = school_idx + 1
    /\ UNCHANGED <<pc, exc, errors, growth_df, inVars, auxVars, tabVars>>

\* pd.to_datetime raises on a time value it cannot parse; nothing catches it
EnvBadTime ==
    /\ pc = "load_env"
    /\ school_idx <= Len(SchoolKeys)
    /\ LET f == find_file_by_name(dir, EnvFileName(CurSchool))
       IN f # None /\ dir[f].body = "badtime"
    /\ pc' = "raised"
    /\ exc' = "to_datetime"
    /\ UNCHANGED <<loadVars, inVars, auxVars, tabVars>>

\* return data
EnvReturn ==
    /\ pc = "load_env"
    /\ school_idx > Len(SchoolKeys)
    /\ pc' = "load_growth"
    /\ UNCHANGED <<exc, loadVars, inVars, auxVars, tabVars>>

\* xlsx_file is None: st.error(...); return pd.DataFrame()
GrowthMissing ==
    /\ pc = "load_growth"
    /\ find_file_by_name(dir, GrowthFileName) = None
    /\ growth_df' = <<>>
    /\ pc' = "guard"
    /\ UNCHANGED <<exc, school_idx, env_data, errors, inVars, auxVars, tabVars>>

\* pd.concat([]) raises ValueError
GrowthNoSheets ==
    /\ pc = "load_growth"
    /\ find_file_by_name(dir, GrowthFileName) # None
    /\ workbook = <<>>
    /\ pc' = "raised"
    /\ exc' = "concat"
    /\ UNCHANGED <<loadVars, inVars, auxVars, tabVars>>

GrowthLoaded ==
    /\ pc = "load_growth"
    /\ find_file_by_name(dir, GrowthFileName) # None
    /\ workbook # <<>>
    /\ growth_df' = ConcatSheets(workbook)
    /\ pc' = "guard"
    /\ UNCHANGED <<exc, school_idx, env_data, errors, inVars, auxVars, tabVars>>

(***************************************************************************)
(* Module level: the halt guard, the sidebar and the three tabs.           *)
(***************************************************************************)
\* A guard that halts only when both datasets are unusable.
MustStopBoth(env, growth) == DOMAIN env = {} /\ growth = <<>>

\* not env_data or growth_df.empty
MustStop(env, growth) == DOMAIN env = {} \/ growth = <<>>

GuardStop ==
    /\ pc = "guard"
    /\ MustStop(env_data, growth_df)
    /\ pc' = "stopped"
    /\ UNCHANGED <<exc, loadVars, inVars, auxVars, tabVars>>

GuardPass ==
    /\ pc = "guard"
    /\ ~MustStop(env_data, growth_df)
    /\ pc' = "sidebar"
    /\ UNCHANGED <<exc, loadVars, inVars, auxVars, tabVars>>

Sidebar ==
    /\ pc = "sidebar"
    /\ school_option' = widget
    /\ pc' = "tab1_overview"
    /\ UNCHANGED <<exc, loadVars, inVars, auxVars, overview_df, optimal_ec,
                   ec_weight, ec_size, best_ec>>

\* pd.DataFrame({...}): the columns are paired by position
Tab1Overview ==
    /\ pc = "tab1_overview"
    /\ LET sizes == SizeBySchool(growth_df)
       IN /\ Len(sizes) = Len(SchoolKeys)
          /\ overview_df' = [k \in DOMAIN SchoolKeys |->
                               [school |-> SchoolKeys[k],
                                ec |-> SCHOOL_EC_get(SchoolKeys[k]),
                                count |-> sizes[k]]]
    /\ pc' = "tab1_metrics"
    /\ UNCHANGED <<exc, loadVars, inVars, auxVars, school_option, optimal_ec,
                   ec_weight, ec_size, best_ec>>

\* "All arrays must be of the same length"
Tab1OverviewRaise ==
    /\ pc = "tab1_overview"
    /\ Len(SizeBySchool(growth_df)) # Len(SchoolKeys)
    /\ pc' = "raised"
    /\ exc' = "overview_length"
    /\ UNCHANGED <<loadVars, inVars, auxVars, tabVars>>

\* idxmax over means that are all NaN yields nan in older pandas
Tab1Metrics ==
    /\ pc = "tab1_metrics"
    /\ MeanByEC(growth_df) # <<>>
    /\ optimal_ec' = OptimalEcOf(growth_df)
    /\ pc' = "tab2"
    /\ UNCHANGED <<exc, loadVars, inVars, auxVars, school_option, overview_df,
                   ec_weight, ec_size, best_ec>>

\* idxmax raises on an empty series, and in newer pandas on an all-NaN one
Tab1MetricsRaise ==
    /\ pc = "tab1_metrics"
    /\ IdxMax(MeanByEC(growth_df)) = 0
    /\ pc' = "raised"
    /\ exc' = "idxmax"
    /\ UNCHANGED <<loadVars, inVars, auxVars, tabVars>>

Tab2 ==
    /\ pc = "tab2"
    /\ school_option = All \/ school_option \in DOMAIN env_data
    /\ pc' = "tab3"
    /\ UNCHANGED <<exc, loadVars, inVars, auxVars, tabVars>>

\* env_data[school_option] on a school that was not loaded
Tab2KeyError ==
    /\ pc = "tab2"
    /\ school_option # All
    /\ school_option \notin DOMAIN env_data
    /\ pc' = "raised"
    /\ exc' = "KeyError"
    /\ UNCHANGED <<loadVars, inVars, auxVars, tabVars>>

Tab3 ==
    /\ pc = "tab3"
    /\ ec_weight' = ResetIndex(MeanByEC(growth_df))
    /\ IdxMax(ec_weight') # 0
    /\ best_ec' = BestEcOf(ec_weight')
    /\ ec_size' = SizeByEC(growth_df)
    /\ pc' = "done"
    /\ UNCHANGED <<exc, loadVars, inVars, auxVars, school_option, overview_df, optimal_ec>>

\* .loc[nan, "EC"]
Tab3Raise ==
    /\ pc = "tab3"
    /\ ec_weight' = ResetIndex(MeanByEC(growth_df))
    /\ IdxMax(ec_weight') = 0
    /\ pc' = "raised"
    /\ exc' = "loc"
    /\ UNCHANGED <<loadVars, inVars, auxVars, school_option, overview_df, optimal_ec,
                   ec_size, best_ec>>

(***************************************************************************)
(* One script run over the files a data directory can hold.                *)
(***************************************************************************)
MaxCount == 2

Stored(name, form) == IF form = "NFD" THEN Decompose(name) ELSE name

EnvEntries(form, status) ==
    SelectSeq([k \in DOMAIN SchoolKeys |->
                 [name |-> Stored(EnvFileName(SchoolKeys[k]), form), body |-> status[k]]],
              LAMBDA e : e.body # "absent")

BookEntry(form) == [name |-> Stored(GrowthFileName, form), body |-> "xlsx"]

SheetWeights == <<1, 2, 2, 1>>

FullBook(counts, weights, form) ==
    [k \in DOMAIN SchoolKeys |->
       [name |-> Stored(SchoolKeys[k], form),
        rows |-> [j \in 1..counts[k] |-> [w |-> weights[k]]]]]

OneEach == [k \in DOMAIN SchoolKeys |-> 1]

SpecialBooks ==
    {<<>>,
     FullBook(OneEach, SheetWeights, "NFD"),
     FullBook(OneEach, [k \in DOMAIN SchoolKeys |-> NaN], "NFC")}

Unset ==
    /\ exc = ""
    /\ school_idx = 1
    /\ env_data = <<>>
    /\ errors = <<>>
    /\ growth_df = <<>>
    /\ school_option = All
    /\ overview_df = <<>>
    /\ optimal_ec = NullEC
    /\ ec_weight = <<>>
    /\ ec_size = <<>>
    /\ best_ec = NullEC

NoRuns ==
    /\ run_pc = <<>>
    /\ run_val = <<>>
    /\ cache = <<>>
    /\ lock = <<>>
    /\ body_runs = <<>>

InitFiles ==
    \E form \in {"NFC", "NFD"} :
    \E status \in [DOMAIN SchoolKeys -> {"absent", "ok", "badtime"}] :
    \E present \in BOOLEAN :
        /\ dir = EnvEntries(form, status) \o (IF present THEN <<BookEntry(form)>> ELSE <<>>)
        /\ workbook = IF present THEN FullBook(OneEach, SheetWeights, "NFC") ELSE <<>>
        /\ widget \in {SidebarOptions[k] : k \in DOMAIN SidebarOptions}

InitBooks ==
    /\ dir = EnvEntries("NFD", [k \in DOMAIN SchoolKeys |-> "ok"]) \o <<BookEntry("NFD")>>
    /\ workbook \in {FullBook(c, SheetWeights, "NFC") : c \in [DOMAIN SchoolKeys -> 0..MaxCount]}
                      \cup SpecialBooks
    /\ widget \in {All, Haneul}

Init ==
    /\ pc = "load_env"
    /\ Unset
    /\ target = <<>>
    /\ found = None
    /\ NoRuns
    /\ InitFiles \/ InitBooks

Next ==
    \/ EnvMissing \/ EnvParsed \/ EnvBadTime \/ EnvReturn
    \/ GrowthMissing \/ GrowthNoSheets \/ GrowthLoaded
    \/ GuardStop \/ GuardPass
    \/ Sidebar
    \/ Tab1Overview \/ Tab1OverviewRaise
    \/ Tab1Metrics \/ Tab1MetricsRaise
    \/ Tab2 \/ Tab2KeyError
    \/ Tab3 \/ Tab3Raise

Spec == Init /\ [][Next]_vars

(***************************************************************************)
(* Properties of one script run (Spec).                                    *)
(***************************************************************************)
Range(s) == {s[k] : k \in DOMAIN s}

FilePresent(name) == \E k \in DOMAIN dir : CanonEq(dir[k].name, name)

MissingSchools == {s \in Schools : ~FilePresent(EnvFileName(s))}

BadSchools ==
    {s \in Schools : \E k \in DOMAIN dir :
        CanonEq(dir[k].name, EnvFileName(s)) /\ dir[k].body = "badtime"}

Processed == {SchoolKeys[k] : k \in 1..(school_idx - 1)}

EnvReturned == school_idx > Len(SchoolKeys)

\* C1: a school whose file is missing is left out of the map and its file is
\* reported, a missing file never makes the loader raise, and on return the
\* map's keys are exactly the schools whose file was found.
C1_MissingOmitted ==
    /\ \A s \in Processed :
         IF s \in MissingSchools
         THEN s \notin DOMAIN env_data /\ EnvFileName(s) \in Range(errors)
         ELSE s \in DOMAIN env_data
    /\ Range(errors) \subseteq {EnvFileName(s) : s \in MissingSchools}
    /\ exc = "to_datetime" => (~EnvReturned /\ CurSchool \in BadSchools)
    /\ BadSchools = {} => exc # "to_datetime"
    /\ EnvReturned =>
         /\ DOMAIN env_data = Schools \ MissingSchools
         /\ Len(errors) = Cardinality(MissingSchools)

\* The loader has returned three schools; the second one's file is missing
\* and the others are stored under decomposed names.
C1_Witness ==
    /\ pc = "load_growth"
    /\ MissingSchools = {Haneul}
    /\ DOMAIN env_data = {Songdo, Ara, Dongsan}
    /\ errors = <<EnvFileName(Haneul)>>
    /\ dir[1].name # EnvFileName(Songdo)

\* C5: a found file with an unparseable time fails that school only: the
\* loader does not raise, returns the other schools and reports the failing
\* one.
C5_MalformedIsolated ==
    BadSchools # {} =>
        /\ exc # "to_datetime"
        /\ EnvReturned =>
             /\ DOMAIN env_data = (Schools \ MissingSchools) \ BadSchools
             /\ \A s \in BadSchools : EnvFileName(s) \in Range(errors)

Reporting ==
    \/ pc \in {"sidebar", "tab1_overview", "tab1_metrics", "tab2", "tab3", "done"}
    \/ pc = "raised" /\ exc \in {"overview_length", "idxmax", "KeyError", "loc"}

BothReturned ==
    /\ pc \in {"guard", "stopped", "raised"} \/ Reporting
    /\ exc \notin {"to_datetime", "concat"}

NothingReported ==
    /\ overview_df = <<>>
    /\ optimal_ec = NullEC
    /\ ec_weight = <<>>
    /\ ec_size = <<>>
    /\ best_ec = NullEC

\* C6: the reporting stage runs only with at least one environment dataset
\* and at least one growth row; after any other outcome of the two loaders
\* the run stops at the guard, with no exception and nothing aggregated.
C6_GuardedReporting ==
    /\ Reporting => (DOMAIN env_data # {} /\ Len(growth_df) >= 1)
    /\ (BothReturned /\ (DOMAIN env_data = {} \/ Len(growth_df) = 0)) =>
           (pc \in {"guard", "stopped"} /\ exc = "" /\ NothingReported)
    /\ pc = "stopped" => (DOMAIN env_data = {} \/ Len(growth_df) = 0)

\* Environment data was loaded, the workbook is missing: the run stopped.
C6_Witness ==
    /\ pc = "stopped"
    /\ DOMAIN env_data # {}
    /\ ~FilePresent(GrowthFileName)
    /\ growth_df = <<>>

OverviewTried ==
    \/ pc \in {"tab1_metrics", "tab2", "tab3", "done"}
    \/ pc = "raised" /\ exc \in {"overview_length", "idxmax", "KeyError", "loc"}

\* C9: the overview table is built for every growth table that passes the
\* guard, and the count beside each school is the number of growth rows of
\* that school.
C9_OverviewCounts ==
    OverviewTried =>
        /\ exc # "overview_length"
        /\ Len(overview_df) = Len(SchoolKeys)
        /\ \A k \in DOMAIN overview_df :
             overview_df[k].count =
               Cardinality({j \in DOMAIN growth_df :
                              growth_df[j].school = overview_df[k].school})

\* C10: past the guard every school offered in the sidebar has an entry in
\* env_data, and the lookup of the selected school does not fail.
C10_OfferedAreLoaded ==
    Reporting =>
        /\ \A k \in DOMAIN SidebarOptions :
             SidebarOptions[k] # All => SidebarOptions[k] \in DOMAIN env_data
        /\ exc # "KeyError"

(***************************************************************************)
(* Lookup on its own: any short directory, any form of the target.         *)
(***************************************************************************)
MaxDirLen == 2

\* U+1109 U+1169 U+11BC (conjoining jamo), U+C18C (LV), U+C1A1 (LVT), "_"
Jamo == {4361, 4457, 4540, 49548, 49569}

Alphabet == Jamo \cup {95}

Names == {<<a>> : a \in Alphabet}
           \cup {<<a, b>> : a \in Jamo, b \in Jamo}
           \cup {<<4361, 4457, 4540>>}

Targets == {<<49569>>, <<49548, 4540>>, <<4361, 4457, 4540>>, <<49548>>, <<4361, 4457>>}

Distinct(s) == \A a \in DOMAIN s : \A b \in DOMAIN s : a # b => s[a] # s[b]

NameLists == UNION {[1..n -> Names] : n \in 0..MaxDirLen}

InitResolve ==
    /\ pc = "resolve"
    /\ \E names \in NameLists :
         /\ Distinct(names)
         /\ dir = [k \in DOMAIN names |-> [name |-> names[k], body |-> "ok"]]
    /\ target \in Targets
    /\ found = None
    /\ Unset
    /\ NoRuns
    /\ workbook = <<>>
    /\ widget = All

Resolve ==
    /\ pc = "resolve"
    /\ found' = find_file_by_name(dir, target)
    /\ pc' = "resolved"
    /\ UNCHANGED <<exc, dir, target, workbook, widget, loadVars, tabVars, cacheVars>>

NextResolve == Resolve

SpecResolve == InitResolve /\ [][NextResolve]_vars

\* C2: find_file_by_name returns an entry iff some entry's name is canonically
\* equal to the target; it is the first such entry in listing order, and with
\* no such entry the result is the value None.
C2_ResolveCanonical ==
    pc = "resolved" =>
        /\ found \in 0..Len(dir)
        /\ (found # None) <=> (\E k \in DOMAIN dir : CanonEq(dir[k].name, target))
        /\ found # None =>
             /\ CanonEq(dir[found].name, target)
             /\ \A j \in 1..(found - 1) : ~CanonEq(dir[j].name, target)

\* A decomposed target finds a composed entry listed after a non-matching
\* one and before a second, equivalent entry.
C2_Witness ==
    /\ pc = "resolved"
    /\ Len(dir) = 2
    /\ found = 1
    /\ dir[1].name # target
    /\ CanonEq(dir[2].name, target)
    /\ dir[2].name # dir[1].name

(***************************************************************************)
(* Consolidation and aggregation on their own: any small workbook.         *)
(***************************************************************************)
MaxRows == 2

SheetNames == {Songdo, Haneul, Dongsan, Decompose(Songdo)}

CellValues == {NaN, 1, 2}

RowLists == UNION {[1..n -> [w : CellValues]] : n \in 0..MaxRows}

Sheets == [name : SheetNames, rows : RowLists]

Books == {<<>>} \cup {<<a>> : a \in Sheets}
           \cup {p \in {<<a, b>> : a \in Sheets, b \in Sheets} : p[1].name # p[2].name}

InitGrowth ==
    /\ pc = "agg_load"
    /\ Unset
    /\ NoRuns
    /\ dir = <<BookEntry("NFD")>>
    /\ workbook \in Books
    /\ widget = All
    /\ target = <<>>
    /\ found = None

AggNoSheets ==
    /\ pc = "agg_load"
    /\ find_file_by_name(dir, GrowthFileName) # None
    /\ workbook = <<>>
    /\ pc' = "raised"
    /\ exc' = "concat"
    /\ UNCHANGED <<loadVars, inVars, auxVars, tabVars>>

AggLoad ==
    /\ pc = "agg_load"
    /\ find_file_by_name(dir, GrowthFileName) # None
    /\ workbook # <<>>
    /\ growth_df' = ConcatSheets(workbook)
    /\ pc' = "agg"
    /\ UNCHANGED <<exc, school_idx, env_data, errors, inVars, auxVars, tabVars>>

\* lines 155, 234-235 and 254-269 on a table that has a best group
Aggregate ==
    /\ pc = "agg"
    /\ IdxMax(MeanByEC(growth_df)) # 0
    /\ optimal_ec' = OptimalEcOf(growth_df)
    /\ ec_weight' = ResetIndex(MeanByEC(growth_df))
    /\ best_ec' = BestEcOf(ec_weight')
    /\ ec_size' = SizeByEC(growth_df)
    /\ pc' = "agg_done"
    /\ UNCHANGED <<exc, loadVars, inVars, auxVars, school_option, overview_df>>

\* no group, or no group with a value: idxmax has nothing to return
AggregateNoData ==
    /\ pc = "agg"
    /\ IdxMax(MeanByEC(growth_df)) = 0
    /\ ec_weight' = ResetIndex(MeanByEC(growth_df))
    /\ ec_size' = SizeByEC(growth_df)
    /\ pc' = "agg_done"
    /\ exc' = "idxmax"
    /\ UNCHANGED <<loadVars, inVars, auxVars, school_option, overview_df, optimal_ec, best_ec>>

NextGrowth == AggNoSheets \/ AggLoad \/ Aggregate \/ AggregateNoData

SpecGrowth == InitGrowth /\ [][NextGrowth]_vars

TargetEC == {<<Songdo, 1>>, <<Haneul, 2>>, <<Ara, 4>>, <<Dongsan, 8>>}

Loaded == pc \in {"agg", "agg_done"}

\* C3: every row of the consolidated table carries the target EC configured
\* for its school (its sheet's name); its EC is null exactly when that name is
\* no configured school; the rows of a sheet keep their order.
C3_JoinedEC ==
    Loaded =>
        /\ \A k \in DOMAIN growth_df :
             LET r == growth_df[k]
             IN /\ (r.EC = NullEC) <=> (r.school \notin Schools)
                /\ r.school \in Schools => <<r.school, r.EC>> \in TargetEC
                /\ \E j \in DOMAIN workbook : workbook[j].name = r.school
        /\ \A j \in DOMAIN workbook :
             LET mine == SelectSeq(growth_df, LAMBDA r : r.school = workbook[j].name)
             IN [k \in DOMAIN mine |-> [w |-> mine[k].w]] = workbook[j].rows

\* Two sheets of two rows each, one named as a school and one not.
C3_Witness ==
    /\ Loaded
    /\ Len(growth_df) = 4
    /\ growth_df[1].EC = 2
    /\ growth_df[1].w # growth_df[2].w
    /\ growth_df[3].EC = NullEC
    /\ growth_df[3].school = Decompose(Songdo)

Reverse(s) == [k \in DOMAIN s |-> s[Len(s) + 1 - k]]

ValidMeans(means) == {k \in DOMAIN means : means[k].cnt > 0}

ArgMaxKeys(means) ==
    {means[k].EC : k \in {j \in ValidMeans(means) :
                            \A i \in ValidMeans(means) : ~MeanGreater(means[i], means[j])}}

\* C4: the optimal EC is a key of greatest mean fresh weight, the smallest
\* such key on a tie; it is the same for the table read in any row or sheet
\* order, and tab 1 and tab 3 report the same key.
C4_OptimalEC ==
    (pc = "agg_done" /\ exc = "") =>
        LET best == ArgMaxKeys(MeanByEC(growth_df))
        IN /\ optimal_ec \in best
           /\ \A e \in best : optimal_ec <= e
           /\ best_ec = optimal_ec
           /\ OptimalEcOf(Reverse(growth_df)) = optimal_ec
           /\ OptimalEcOf(ConcatSheets(Reverse(workbook))) = optimal_ec

\* Two groups with equal means, the larger key listed first.
C4_Witness ==
    /\ pc = "agg_done"
    /\ exc = ""
    /\ Cardinality(ArgMaxKeys(MeanByEC(growth_df))) = 2
    /\ growth_df[1].EC = 8
    /\ optimal_ec = 1

RECURSIVE SumAt(_, _)
SumAt(table, S) ==
    IF S = {} THEN 0
    ELSE LET j == CHOOSE x \in S : TRUE
         IN table[j].w + SumAt(table, S \ {j})

Present(table) == {j \in DOMAIN table : table[j].w # NaN}

RECURSIVE CntProduct(_)
CntProduct(frame) ==
    IF frame = <<>> THEN 1 ELSE Head(frame).cnt * CntProduct(Tail(frame))

RECURSIVE TotalSize(_)
TotalSize(sizes) ==
    IF sizes = <<>> THEN 0 ELSE Head(sizes).size + TotalSize(Tail(sizes))

\* sum over the groups of mean * size, scaled by the product d of the counts
RECURSIVE WeightedNum(_, _, _)
WeightedNum(frame, sizes, d) ==
    IF frame = <<>> THEN 0
    ELSE Head(frame).sum * Head(sizes).size * (d \div Head(frame).cnt)
           + WeightedNum(Tail(frame), Tail(sizes), d)

\* (sum_g mean_g * size_g) / (sum_g size_g) = mean of the column over the table
Recombines ==
    /\ \A k \in DOMAIN ec_weight : ec_weight[k].cnt > 0
    /\ [k \in DOMAIN ec_weight |-> ec_weight[k].EC] = [k \in DOMAIN ec_size |-> ec_size[k].EC]
    /\ TotalSize(ec_size) > 0
    /\ LET d == CntProduct(ec_weight)
       IN WeightedNum(ec_weight, ec_size, d) * Cardinality(Present(growth_df))
            = SumAt(growth_df, Present(growth_df)) * d * TotalSize(ec_size)

\* each group's mean leaves its missing values out of the sum and the count
MeansSkipMissing ==
    \A k \in DOMAIN ec_weight :
        LET mine == {j \in Present(growth_df) : growth_df[j].EC = ec_weight[k].EC}
        IN /\ ec_weight[k].cnt = Cardinality(mine)
           /\ ec_weight[k].sum = SumAt(growth_df, mine)

Complete(table) == \A j \in DOMAIN table : table[j].w # NaN /\ HasEC(table[j])

\* C7 as stated: for every table with a group and a value in the column,
\* missing values and null group keys included, the per-EC means weighted by
\* the per-EC row counts give the overall mean of the column.
C7_RecombinesAlways ==
    (pc = "agg_done" /\ Present(growth_df) # {} /\ ec_size # <<>>)
        => Recombines /\ MeansSkipMissing

\* C7 amended: the weighted means give the overall mean for every non-empty
\* table with no missing value in the column and no null group key; in every
\* table a missing value is left out of both the sum and the count of its
\* group's mean.
C7_RecombinesComplete ==
    pc = "agg_done" =>
        /\ MeansSkipMissing
        /\ (growth_df # <<>> /\ Complete(growth_df)) => Recombines

\* Two groups of different sizes and different means, nothing missing.
C7_Witness ==
    /\ pc = "agg_done"
    /\ Complete(growth_df)
    /\ Len(ec_weight) = 2
    /\ ec_size[1].size # ec_size[2].size
    /\ MeanGreater(ec_weight[1], ec_weight[2])
    /\ Recombines

(***************************************************************************)
(* @st.cache_data under concurrent script runs.  A call reads the cache;   *)
(* on a miss it takes the loader's compute lock, reads the cache again and *)
(* only then runs the body, storing the value the body returns.  A body    *)
(* that raises stores nothing.                                             *)
(***************************************************************************)
MaxRuns == 2

Runs == 1..MaxRuns

Loaders == {"env", "growth"}

AfterLoad(L) == IF L = "env" THEN "call_growth" ELSE "rest"

\* does the body of the loader raise on the files of this directory
BodyRaises(L) ==
    IF L = "env"
    THEN \E k \in DOMAIN SchoolKeys :
            LET f == find_file_by_name(dir, EnvFileName(SchoolKeys[k]))
            IN f # None /\ dir[f].body = "badtime"
    ELSE find_file_by_name(dir, GrowthFileName) # None /\ workbook = <<>>

pipeVars == <<pc, exc, inVars, resVars, loadVars, tabVars>>

\* a session connects, or a widget interaction reruns the script
StartRun(r) ==
    /\ run_pc[r] = "idle"
    /\ run_pc' = [run_pc EXCEPT ![r] = "call_env"]
    /\ UNCHANGED <<run_val, cache, lock, body_runs, pipeVars>>

CacheHit(r, L) ==
    /\ run_pc[r] = "call_" \o L
    /\ cache[L] # 0
    /\ run_val' = [run_val EXCEPT ![r][L] = cache[L]]
    /\ run_pc' = [run_pc EXCEPT ![r] = AfterLoad(L)]
    /\ UNCHANGED <<cache, lock, body_runs, pipeVars>>

CacheMiss(r, L) ==
    /\ run_pc[r] = "call_" \o L
    /\ cache[L] = 0
    /\ run_pc' = [run_pc EXCEPT ![r] = "wait_" \o L]
    /\ UNCHANGED <<run_val, cache, lock, body_runs, pipeVars>>

\* the lock is free and the value was stored meanwhile
LockedHit(r, L) ==
    /\ run_pc[r] = "wait_" \o L
    /\ lock[L] = 0
    /\ cache[L] # 0
    /\ run_val' = [run_val EXCEPT ![r][L] = cache[L]]
    /\ run_pc' = [run_pc EXCEPT ![r] = AfterLoad(L)]
    /\ UNCHANGED <<cache, lock, body_runs, pipeVars>>

BodyStart(r, L) ==
    /\ run_pc[r] = "wait_" \o L
    /\ lock[L] = 0
    /\ cache[L] = 0
    /\ lock' = [lock EXCEPT ![L] = r]
    /\ body_runs' = [body_runs EXCEPT ![L] = @ + 1]
    /\ run_pc' = [run_pc EXCEPT ![r] = "body_" \o L]
    /\ UNCHANGED <<run_val, cache, pipeVars>>

BodyReturn(r, L) ==
    /\ run_pc[r] = "body_" \o L
    /\ ~BodyRaises(L)
    /\ cache' = [cache EXCEPT ![L] = body_runs[L]]
    /\ run_val' = [run_val EXCEPT ![r][L] = body_runs[L]]
    /\ lock' = [lock EXCEPT ![L] = 0]
    /\ run_pc' = [run_pc EXCEPT ![r] = AfterLoad(L)]
    /\ UNCHANGED <<body_runs, pipeVars>>

BodyRaise(r, L) ==
    /\ run_pc[r] = "body_" \o L
    /\ BodyRaises(L)
    /\ lock' = [lock EXCEPT ![L] = 0]
    /\ run_pc' = [run_pc EXCEPT ![r] = "raised"]
    /\ UNCHANGED <<run_val, cache, body_runs, pipeVars>>

InitCache ==
    /\ pc = "serving"
    /\ Unset
    /\ target = <<>>
    /\ found = None
    /\ widget = All
    /\ \E bad \in {"ok", "badtime"} :
         dir = EnvEntries("NFD", [k \in DOMAIN SchoolKeys |-> IF k = 3 THEN bad ELSE "ok"])
                 \o <<BookEntry("NFD")>>
    /\ workbook \in {<<>>, FullBook(OneEach, SheetWeights, "NFC")}
    /\ run_pc = [r \in Runs |-> "idle"]
    /\ run_val = [r \in Runs |-> [L \in Loaders |-> 0]]
    /\ cache = [L \in Loaders |-> 0]
    /\ lock = [L \in Loaders |-> 0]
    /\ body_runs = [L \in Loaders |-> 0]

NextCache ==
    \E r \in Runs :
        \/ StartRun(r)
        \/ \E L \in Loaders :
              \/ CacheHit(r, L)
              \/ CacheMiss(r, L)
              \/ LockedHit(r, L)
              \/ BodyStart(r, L)
              \/ BodyReturn(r, L)
              \/ BodyRaise(r, L)

SpecCache == InitCache /\ [][NextCache]_vars

\* C8: across all interleavings of script runs each loader's body is entered
\* at most once, a run that finds a load in flight does not enter the body
\* itself, and every run receives the result of the same load.
C8_LoadedOnce ==
    \A L \in Loaders :
        /\ body_runs[L] <= 1
        /\ Cardinality({r \in Runs : run_pc[r] = "body_" \o L}) <= 1
        /\ \A r \in Runs : run_val[r][L] \in {0, 1}

====
